---- MODULE Spec2Model ----
(***************************************************************************)
(* Model of venial's declaration query and builder layer                   *)
(* (src/types_edition.rs): GenericParam classification, the with_param and *)
(* where-clause builders of Struct/Enum/Union, Struct field enumeration,   *)
(* Enum classification and WhereClauseItem::parse.                         *)
(*                                                                         *)
(* Every operation is a synchronous call on an owned value, so a state is  *)
(*   recv : the value the calls operate on (for a consuming builder, the   *)
(*          value it returned),                                            *)
(*   orig : that value as first constructed, before any call,              *)
(*   call : the last call: its name, receiver before the call, argument    *)
(*          and returned value,                                            *)
(*   log  : the arguments of the with_param calls made so far, in order.   *)
(* Option<T> is a sequence of length at most one, Vec<T> a sequence, a     *)
(* Punctuated<T> a sequence of <<item, punctuation>> pairs.                *)
(***************************************************************************)
EXTENDS Integers, Sequences, FiniteSets, TLC

VARIABLES recv, orig, call, log

vars == <<recv, orig, call, log>>

None == <<>>

Some(x) == <<x>>

is_some(o) == Len(o) = 1

unwrap(o) == o[1]

(***************************************************************************)
(* proc_macro2 values.  An Ident is a symbol with a span, a Punct a        *)
(* character with a spacing, a Literal its text.  A TokenTree wraps one of *)
(* them, or a Group (kept opaque: its delimiter), under a tag; text is the *)
(* symbol, the character, the literal text or the delimiter.               *)
(***************************************************************************)
CallSite == "call_site"

Ident_new(string, span) == [sym |-> string, span |-> span]

Punct_new(ch, spacing) == [ch |-> ch, spacing |-> spacing]

TokenTree_Ident(ident) ==
    [tt |-> "Ident", text |-> ident.sym, spacing |-> "-", span |-> ident.span]

TokenTree_Punct(punct) ==
    [tt |-> "Punct", text |-> punct.ch, spacing |-> punct.spacing, span |-> CallSite]

TokenTree_Literal(text) ==
    [tt |-> "Literal", text |-> text, spacing |-> "-", span |-> CallSite]

TokenTree_Group(delimiter) ==
    [tt |-> "Group", text |-> delimiter, spacing |-> "-", span |-> CallSite]

\* Shorthands for tokens written in a quote!(...)
Id(string) == TokenTree_Ident(Ident_new(string, CallSite))

Pt(ch) == TokenTree_Punct(Punct_new(ch, "Alone"))

Comma == Punct_new(",", "Alone")

(***************************************************************************)
(* Punctuated<T>: items with their trailing punctuation.  A missing        *)
(* punctuation argument becomes a comma.                                   *)
(***************************************************************************)
items(p) == [i \in 1..Len(p) |-> p[i][1]]

punct_or_comma(punct) == IF is_some(punct) THEN unwrap(punct) ELSE Comma

Punctuated_push(p, value, punct) == Append(p, <<value, punct_or_comma(punct)>>)

Punctuated_insert(p, index, value, punct) ==
    SubSeq(p, 1, index) \o << <<value, punct_or_comma(punct)>> >>
        \o SubSeq(p, index + 1, Len(p))

NoCall == [op |-> "init", self |-> None, arg |-> None, ret |-> None]

Call(op, self, arg, ret) == [op |-> op, self |-> self, arg |-> arg, ret |-> ret]

(***************************************************************************)
(* GenericParam: constructors and classification.                          *)
(***************************************************************************)
GenericBound(tk_colon, tokens) == [tk_colon |-> tk_colon, tokens |-> tokens]

GenericParam(tk_prefix, name, bound) ==
    [tk_prefix |-> tk_prefix, name |-> name, bound |-> bound]

lifetime(name) ==
    GenericParam(Some(TokenTree_Punct(Punct_new("'", "Joint"))),
                 Ident_new(name, CallSite), None)

bounded_lifetime(name, bound) ==
    GenericParam(Some(TokenTree_Punct(Punct_new("'", "Alone"))),
                 Ident_new(name, CallSite),
                 Some(GenericBound(Punct_new(":", "Alone"), bound)))

ty(name) == GenericParam(None, Ident_new(name, CallSite), None)

bounded_ty(name, bound) ==
    GenericParam(None, Ident_new(name, CallSite),
                 Some(GenericBound(Punct_new(":", "Alone"), bound)))

const_param(name, type) ==
    GenericParam(Some(TokenTree_Ident(Ident_new("const", CallSite))),
                 Ident_new(name, CallSite),
                 Some(GenericBound(Punct_new(":", "Alone"), type)))

is_lifetime(param) ==
    IF is_some(param.tk_prefix)
       /\ unwrap(param.tk_prefix).tt = "Punct"
       /\ unwrap(param.tk_prefix).text = "'"
    THEN TRUE
    ELSE FALSE

is_ty(param) ==
    IF is_some(param.tk_prefix) THEN FALSE ELSE TRUE

is_const_AnyIdent(param) ==
    IF is_some(param.tk_prefix) /\ unwrap(param.tk_prefix).tt = "Ident"
    THEN TRUE
    ELSE FALSE

is_const(param) ==
    IF is_some(param.tk_prefix)
       /\ unwrap(param.tk_prefix).tt = "Ident"
       /\ unwrap(param.tk_prefix).text = "const"
    THEN TRUE
    ELSE FALSE

(***************************************************************************)
(* Classification: one GenericParam, any prefix token, queried by the      *)
(* three classification methods.                                           *)
(***************************************************************************)
Prefixes ==
    { None,
      Some(TokenTree_Punct(Punct_new("'", "Joint"))),
      Some(TokenTree_Punct(Punct_new("'", "Alone"))),
      Some(Pt("+")), Some(Pt(":")),
      Some(Id("const")), Some(TokenTree_Ident(Ident_new("const", "src"))),
      Some(Id("static")), Some(Id("T")),
      Some(TokenTree_Literal("0")), Some(TokenTree_Group("Parenthesis")) }

ParamNames == {"a", "T", "N"}

BoundTokens == { <<Id("Debug")>>, <<Id("b"), Pt("+"), Id("c")>> }

OptionalBounds ==
    {None} \cup { Some(GenericBound(Punct_new(":", "Alone"), t)) : t \in BoundTokens }

AnyGenericParam ==
    { GenericParam(pf, Ident_new(n, "src"), b) :
        pf \in Prefixes, n \in ParamNames, b \in OptionalBounds }

InitClassify ==
    /\ recv \in AnyGenericParam
    /\ orig = recv
    /\ call = NoCall
    /\ log = <<>>

CallIsLifetime ==
    /\ call' = Call("is_lifetime", recv, None, is_lifetime(recv))
    /\ UNCHANGED <<recv, orig, log>>

CallIsTy ==
    /\ call' = Call("is_ty", recv, None, is_ty(recv))
    /\ UNCHANGED <<recv, orig, log>>

CallIsConst ==
    /\ call' = Call("is_const", recv, None, is_const(recv))
    /\ UNCHANGED <<recv, orig, log>>

NextClassify == CallIsLifetime \/ CallIsTy \/ CallIsConst

SpecClassify == InitClassify /\ [][NextClassify]_vars

ClassCount(param) ==
    (IF is_lifetime(param) THEN 1 ELSE 0)
    + (IF is_ty(param) THEN 1 ELSE 0)
    + (IF is_const(param) THEN 1 ELSE 0)

IsClassifier == call.op \in {"is_lifetime", "is_ty", "is_const"}

KnownPrefix(param) ==
    \/ param.tk_prefix = None
    \/ /\ param.tk_prefix # None
       /\ param.tk_prefix[1].tt = "Punct"
       /\ param.tk_prefix[1].text = "'"
    \/ /\ param.tk_prefix # None
       /\ param.tk_prefix[1].tt = "Ident"
       /\ param.tk_prefix[1].text = "const"

\* C1 (as stated): for every GenericParam, whatever its prefix token, exactly
\* one of is_lifetime(), is_ty(), is_const() returns true.
C1_ExactlyOneClass == IsClassifier => ClassCount(call.self) = 1

\* C1 (amended): at most one of is_lifetime(), is_ty(), is_const() returns
\* true, and exactly one does if and only if the prefix is absent, a quote
\* punctuation mark or the identifier const; with any other prefix token all
\* three return false.
C1_ClassByPrefix ==
    IsClassifier =>
        /\ ClassCount(call.self) <= 1
        /\ (ClassCount(call.self) = 1) <=> KnownPrefix(call.self)

C1_Witness ==
    /\ call.op = "is_const"
    /\ call.ret = FALSE
    /\ call.self.tk_prefix = Some(Id("static"))

(***************************************************************************)
(* Struct / Enum / Union builders (implement_type_setters!).  Of a         *)
(* declaration the builders read and write generic_params and where_clause *)
(* only; kind records which of the three types the macro was expanded for. *)
(***************************************************************************)
Kinds == {"Struct", "Enum", "Union"}

GenericParams(params) == [params |-> params]

GenericParams_default == GenericParams(<<>>)

WhereClause(its) == [items |-> its]

WhereClause_default == WhereClause(<<>>)

Decl(kind, generic_params, where_clause) ==
    [kind |-> kind, generic_params |-> generic_params, where_clause |-> where_clause]

unwrap_or_default(o, default) == IF is_some(o) THEN unwrap(o) ELSE default

GenericParams_with_param_PushAll(self, param) ==
    [self EXCEPT !.params = Punctuated_push(self.params, param, None)]

GenericParams_with_param_InsertAll(self, param) ==
    [self EXCEPT !.params = Punctuated_insert(self.params, 0, param, None)]

GenericParams_with_param(self, param) ==
    IF is_lifetime(param)
    THEN [self EXCEPT !.params = Punctuated_insert(self.params, 0, param, None)]
    ELSE [self EXCEPT !.params = Punctuated_push(self.params, param, None)]

with_param_KeepAbsent(self, param) ==
    IF is_some(self.generic_params)
    THEN [self EXCEPT !.generic_params =
            Some(GenericParams_with_param(unwrap(self.generic_params), param))]
    ELSE self

with_param(self, param) ==
    LET params == unwrap_or_default(self.generic_params, GenericParams_default)
        params2 == GenericParams_with_param(params, param)
    IN  [self EXCEPT !.generic_params = Some(params2)]

WhereClauseItem(left_side, bound) == [left_side |-> left_side, bound |-> bound]

WhereClause_with_item(self, item) ==
    [self EXCEPT !.items = Punctuated_push(self.items, item, None)]

WhereClause_from_item(item) == WhereClause_with_item(WhereClause_default, item)

with_where_item(self, item) ==
    IF is_some(self.where_clause)
    THEN [self EXCEPT !.where_clause =
            Some(WhereClause_with_item(unwrap(self.where_clause), item))]
    ELSE [self EXCEPT !.where_clause = Some(WhereClause_from_item(item))]

\* The slice the three parameter filters iterate over.
params_slice(self) ==
    IF is_some(self.generic_params) THEN unwrap(self.generic_params).params ELSE <<>>

get_lifetime_params(self) == SelectSeq(items(params_slice(self)), is_lifetime)

get_type_params_NotLifetime(self) ==
    LET not_lifetime(param) == ~is_lifetime(param)
    IN  SelectSeq(items(params_slice(self)), not_lifetime)

get_type_params(self) == SelectSeq(items(params_slice(self)), is_ty)

get_const_params(self) == SelectSeq(items(params_slice(self)), is_const)

\* The loop of create_derive_where_clause over the type parameters.
RECURSIVE derive_loop(_, _, _)
derive_loop(where_clause, type_params, derived_trait) ==
    IF type_params = <<>> THEN where_clause
    ELSE LET param == Head(type_params)
             item == WhereClauseItem(
                        <<TokenTree_Ident(param.name)>>,
                        GenericBound(Punct_new(":", "Alone"), derived_trait))
         IN  derive_loop(WhereClause_with_item(where_clause, item),
                         Tail(type_params), derived_trait)

create_derive_where_clause(self, derived_trait) ==
    derive_loop(unwrap_or_default(self.where_clause, WhereClause_default),
                get_type_params(self), derived_trait)

(***************************************************************************)
(* Builder chains: a declaration as the parser or a caller built it,       *)
(* extended by with_param calls.                                           *)
(***************************************************************************)
MaxInitParams == 2

MaxCalls == 3

BuilderParams ==
    { lifetime("a"), bounded_lifetime("b", <<Id("a")>>),
      ty("T"), bounded_ty("U", <<Id("Debug")>>),
      const_param("N", <<Id("usize")>>) }

RECURSIVE SeqsUpTo(_, _)
SeqsUpTo(S, n) ==
    IF n = 0 THEN { <<>> }
    ELSE LET shorter == SeqsUpTo(S, n - 1)
         IN  shorter \cup { Append(q, x) : q \in { r \in shorter : Len(r) = n - 1 }, x \in S }

Punctuated_from(its) == [i \in 1..Len(its) |-> <<its[i], Comma>>]

InitGenericParams ==
    {None} \cup { Some(GenericParams(Punctuated_from(q))) :
                    q \in SeqsUpTo(BuilderParams, MaxInitParams) }

Init ==
    /\ recv \in { Decl(k, g, None) : k \in Kinds, g \in InitGenericParams }
    /\ orig = recv
    /\ call = NoCall
    /\ log = <<>>

WithParam ==
    /\ Len(log) < MaxCalls
    /\ \E param \in BuilderParams :
        /\ recv' = with_param(recv, param)
        /\ call' = Call("with_param", recv, param, with_param(recv, param))
        /\ log' = Append(log, param)
    /\ UNCHANGED orig

Next == WithParam

Spec == Init /\ [][Next]_vars

\* The parameters of a declaration, in order; none when the list is absent.
ParamsOf(decl) ==
    IF decl.generic_params = None THEN <<>> ELSE items(decl.generic_params[1].params)

IsQuote(param) ==
    /\ param.tk_prefix # None
    /\ param.tk_prefix[1].tt = "Punct"
    /\ param.tk_prefix[1].text = "'"

Occurrences(q, x) == { i \in 1..Len(q) : q[i] = x }

PosOf(q, x) == CHOOSE i \in 1..Len(q) : q[i] = x

\* Pairs of calls i < j that passed different parameters of the same class,
\* each of which is in the list exactly once.
SameClassPairs ==
    { pr \in (1..Len(log)) \X (1..Len(log)) :
        /\ pr[1] < pr[2]
        /\ log[pr[1]] # log[pr[2]]
        /\ IsQuote(log[pr[1]]) = IsQuote(log[pr[2]])
        /\ Cardinality(Occurrences(ParamsOf(recv), log[pr[1]])) = 1
        /\ Cardinality(Occurrences(ParamsOf(recv), log[pr[2]])) = 1 }

\* C2 (as stated): two parameters p then q of the same class passed to
\* with_param in that order end up with p before q in the parameter list.
C2_SameClassOrderKept ==
    \A pr \in SameClassPairs :
        PosOf(ParamsOf(recv), log[pr[1]]) < PosOf(ParamsOf(recv), log[pr[2]])

\* C2 (amended): two non-lifetime parameters p then q passed to with_param in
\* that order end up with p before q; two lifetime parameters p then q end up
\* in the reverse order, q before p.
C2_OrderByClass ==
    \A pr \in SameClassPairs :
        IF IsQuote(log[pr[1]])
        THEN PosOf(ParamsOf(recv), log[pr[2]]) < PosOf(ParamsOf(recv), log[pr[1]])
        ELSE PosOf(ParamsOf(recv), log[pr[1]]) < PosOf(ParamsOf(recv), log[pr[2]])

C2_Witness ==
    /\ Len(log) = 3
    /\ \E pr \in SameClassPairs : IsQuote(log[pr[1]])
    /\ \E i \in 1..Len(log) : ~IsQuote(log[i])

LifetimesFirst(q) ==
    \A i, j \in 1..Len(q) : (IsQuote(q[j]) /\ ~IsQuote(q[i])) => j < i

\* C3: when the declaration started with an absent, empty or lifetimes-first
\* parameter list, after any sequence of with_param calls every lifetime
\* parameter precedes every non-lifetime parameter.
C3_LifetimesFirst ==
    LifetimesFirst(ParamsOf(orig)) => LifetimesFirst(ParamsOf(recv))

C3_Witness ==
    /\ Len(ParamsOf(orig)) = 2
    /\ IsQuote(ParamsOf(orig)[1]) /\ ~IsQuote(ParamsOf(orig)[2])
    /\ Len(log) = 3
    /\ IsQuote(log[2]) /\ ~IsQuote(log[1]) /\ ~IsQuote(log[3])

\* C4: with_param(p) returns a declaration whose parameter list is present
\* and is the old list (empty if absent) with p put first when p is a
\* lifetime and last otherwise, the old parameters keeping their order.
C4_WithParamPosition ==
    call.op = "with_param" =>
        /\ call.ret = recv
        /\ recv.generic_params # None
        /\ ParamsOf(recv) = IF IsQuote(call.arg)
                            THEN <<call.arg>> \o ParamsOf(call.self)
                            ELSE ParamsOf(call.self) \o <<call.arg>>

C4_Witness ==
    /\ call.op = "with_param"
    /\ Len(ParamsOf(call.self)) = 2
    /\ ~IsQuote(ParamsOf(call.self)[1])
    /\ IsQuote(call.arg)

(***************************************************************************)
(* Where-clause building: a declaration with any parameter list, extended  *)
(* by with_where_item and queried by the parameter filters and             *)
(* create_derive_where_clause.                                             *)
(***************************************************************************)
MaxDeriveParams == 3

MaxWhereItems == 2

DeriveParams ==
    { lifetime("a"), ty("T"), bounded_ty("U", <<Id("Clone")>>),
      const_param("N", <<Id("usize")>>),
      GenericParam(Some(Id("static")), Ident_new("S", "src"), None) }

WhereItems ==
    { WhereClauseItem(<<Id("T")>>, GenericBound(Punct_new(":", "Alone"), <<Id("Clone")>>)),
      WhereClauseItem(<<Pt("'"), Id("a")>>,
                      GenericBound(Punct_new(":", "Joint"), <<Pt("'"), Id("b")>>)) }

DerivedTraits == { <<Id("Debug")>>, <<Id("core"), Pt(":"), Pt(":"), Id("Eq")>> }

DeriveGenericParams ==
    {None} \cup { Some(GenericParams(Punctuated_from(q))) :
                    q \in SeqsUpTo(DeriveParams, MaxDeriveParams) }

InitDerive ==
    /\ recv \in { Decl(k, g, w) : k \in Kinds, g \in DeriveGenericParams,
                                  w \in {None, Some(WhereClause_default)} }
    /\ orig = recv
    /\ call = NoCall
    /\ log = <<>>

WhereLen(decl) ==
    IF decl.where_clause = None THEN 0 ELSE Len(decl.where_clause[1].items)

WithWhereItem ==
    /\ WhereLen(recv) < MaxWhereItems
    /\ \E item \in WhereItems :
        /\ recv' = with_where_item(recv, item)
        /\ call' = Call("with_where_item", recv, item, with_where_item(recv, item))
    /\ UNCHANGED <<orig, log>>

CreateDeriveWhereClause ==
    /\ \E derived_trait \in DerivedTraits :
        call' = Call("create_derive_where_clause", recv, derived_trait,
                     create_derive_where_clause(recv, derived_trait))
    /\ UNCHANGED <<recv, orig, log>>

GetTypeParams ==
    /\ call' = Call("get_type_params", recv, None, get_type_params(recv))
    /\ UNCHANGED <<recv, orig, log>>

GetLifetimeParams ==
    /\ call' = Call("get_lifetime_params", recv, None, get_lifetime_params(recv))
    /\ UNCHANGED <<recv, orig, log>>

GetConstParams ==
    /\ call' = Call("get_const_params", recv, None, get_const_params(recv))
    /\ UNCHANGED <<recv, orig, log>>

NextDerive ==
    \/ WithWhereItem
    \/ CreateDeriveWhereClause
    \/ GetTypeParams
    \/ GetLifetimeParams
    \/ GetConstParams

SpecDerive == InitDerive /\ [][NextDerive]_vars

WhereItemsOf(decl) ==
    IF decl.where_clause = None THEN <<>>
    ELSE [i \in 1..Len(decl.where_clause[1].items) |-> decl.where_clause[1].items[i][1]]

NoPrefix(param) == param.tk_prefix = None

\* The item the claim expects for one type parameter.
DerivedItem(param, trait_tokens) ==
    [left_side |-> << [tt |-> "Ident", text |-> param.name.sym, spacing |-> "-",
                       span |-> param.name.span] >>,
     bound |-> [tk_colon |-> [ch |-> ":", spacing |-> "Alone"], tokens |-> trait_tokens]]

ExpectedDerived(decl, trait_tokens) ==
    LET tps == SelectSeq(ParamsOf(decl), NoPrefix)
    IN  WhereItemsOf(decl) \o [i \in 1..Len(tps) |-> DerivedItem(tps[i], trait_tokens)]

\* C5: create_derive_where_clause(trait_tokens) returns the existing
\* where-clause items (none if absent), unchanged and in order, followed by
\* one item per type parameter in declaration order (none for lifetime and
\* const parameters), each with the parameter's name as left-hand side and
\* trait_tokens as bound; the declaration is not modified.
C5_DeriveWhereClause ==
    call.op = "create_derive_where_clause" =>
        /\ items(call.ret.items) = ExpectedDerived(call.self, call.arg)
        /\ recv = call.self

C5_Witness ==
    /\ call.op = "create_derive_where_clause"
    /\ Len(WhereItemsOf(call.self)) = 2
    /\ Len(ParamsOf(call.self)) = 3
    /\ NoPrefix(ParamsOf(call.self)[1])
    /\ ParamsOf(call.self)[2].tk_prefix = Some(Id("const"))
    /\ NoPrefix(ParamsOf(call.self)[3])
    /\ ParamsOf(call.self)[1] # ParamsOf(call.self)[3]

(***************************************************************************)
(* Struct field enumeration.                                               *)
(***************************************************************************)
TyExpr(tokens) == [tokens |-> tokens]

TupleField(type) == [ty |-> type]

NamedField(name, type) == [name |-> name, ty |-> type]

Unit == [shape |-> "Unit", fields |-> <<>>]

Tuple(fields) == [shape |-> "Tuple", fields |-> fields]

Named(fields) == [shape |-> "Named", fields |-> fields]

Struct(fields) == [fields |-> fields]

Digits == <<"0", "1", "2", "3", "4", "5", "6", "7", "8", "9">>

\* usize::to_string: the decimal digits, most significant first.
RECURSIVE to_string(_)
to_string(i) ==
    IF i < 10 THEN Digits[i + 1]
    ELSE to_string(i \div 10) \o Digits[(i % 10) + 1]

\* Ident::to_string: the symbol, without the span.
Ident_to_string(ident) == ident.sym

\* Literal::usize_unsuffixed: a literal whose text is the decimal digits.
Literal_usize_unsuffixed(i) == TokenTree_Literal(to_string(i))

field_names_FromOne(self) ==
    CASE self.fields.shape = "Unit" -> <<>>
      [] self.fields.shape = "Tuple" ->
            [k \in 1..Len(self.fields.fields) |-> to_string(k)]
      [] self.fields.shape = "Named" ->
            [k \in 1..Len(self.fields.fields) |->
                Ident_to_string(items(self.fields.fields)[k].name)]

\* The range 0..len is the k-th element k - 1 of a 1-based sequence.
field_names(self) ==
    CASE self.fields.shape = "Unit" -> <<>>
      [] self.fields.shape = "Tuple" ->
            [k \in 1..Len(self.fields.fields) |-> to_string(k - 1)]
      [] self.fields.shape = "Named" ->
            [k \in 1..Len(self.fields.fields) |->
                Ident_to_string(items(self.fields.fields)[k].name)]

field_tokens(self) ==
    CASE self.fields.shape = "Unit" -> <<>>
      [] self.fields.shape = "Tuple" ->
            [k \in 1..Len(self.fields.fields) |-> Literal_usize_unsuffixed(k - 1)]
      [] self.fields.shape = "Named" ->
            [k \in 1..Len(self.fields.fields) |->
                TokenTree_Ident(items(self.fields.fields)[k].name)]

field_types_SkipFirst(self) ==
    CASE self.fields.shape = "Unit" -> <<>>
      [] self.fields.shape = "Tuple" ->
            [k \in 1..(Len(self.fields.fields) - 1) |-> items(self.fields.fields)[k + 1].ty]
      [] self.fields.shape = "Named" ->
            [k \in 1..Len(self.fields.fields) |-> items(self.fields.fields)[k].ty]

field_types(self) ==
    CASE self.fields.shape = "Unit" -> <<>>
      [] self.fields.shape = "Tuple" ->
            [k \in 1..Len(self.fields.fields) |-> items(self.fields.fields)[k].ty]
      [] self.fields.shape = "Named" ->
            [k \in 1..Len(self.fields.fields) |-> items(self.fields.fields)[k].ty]

MaxTupleFields == 11

MaxNamedFields == 3

FieldTypes == { TyExpr(<<Id("Foo")>>), TyExpr(<<Id("Bar")>>) }

FieldIdents == { Ident_new("a", "src"), Ident_new("b", "src") }

TupleFieldsUpTo(n) ==
    { Punctuated_from(q) : q \in SeqsUpTo({ TupleField(t) : t \in FieldTypes }, n) }

NamedFieldsUpTo(n) ==
    { Punctuated_from(q) :
        q \in SeqsUpTo({ NamedField(nm, t) : nm \in FieldIdents, t \in FieldTypes }, n) }

InitFields ==
    /\ recv \in { Struct(Unit) }
                \cup { Struct(Tuple(f)) : f \in TupleFieldsUpTo(MaxTupleFields) }
                \cup { Struct(Named(f)) : f \in NamedFieldsUpTo(MaxNamedFields) }
    /\ orig = recv
    /\ call = NoCall
    /\ log = <<>>

FieldNames ==
    /\ call' = Call("field_names", recv, None, field_names(recv))
    /\ UNCHANGED <<recv, orig, log>>

FieldTokens ==
    /\ call' = Call("field_tokens", recv, None, field_tokens(recv))
    /\ UNCHANGED <<recv, orig, log>>

FieldTypesCall ==
    /\ call' = Call("field_types", recv, None, field_types(recv))
    /\ UNCHANGED <<recv, orig, log>>

NextFields == FieldNames \/ FieldTokens \/ FieldTypesCall

SpecFields == InitFields /\ [][NextFields]_vars

DecimalText ==
    <<"0", "1", "2", "3", "4", "5", "6", "7", "8", "9", "10", "11", "12", "13",
      "14", "15", "16", "17", "18", "19", "20">>

\* The i-th field of a struct, as stored.
FieldAt(strct, i) == strct.fields.fields[i][1]

\* C6: field_names(), field_tokens() and field_types() of a Struct have the
\* same length, and at every index the three elements are those of one
\* field: its name or positional index, the token of that same text, and
\* that field's type.
C6_FieldsAligned ==
    call.op \in {"field_names", "field_tokens", "field_types"} =>
        LET names == field_names(call.self)
            tokens == field_tokens(call.self)
            types == field_types(call.self)
        IN  /\ Len(names) = Len(call.self.fields.fields)
            /\ Len(tokens) = Len(names)
            /\ Len(types) = Len(names)
            /\ \A i \in 1..Len(names) :
                /\ tokens[i].text = names[i]
                /\ types[i] = FieldAt(call.self, i).ty
                /\ call.self.fields.shape = "Named" =>
                        /\ names[i] = FieldAt(call.self, i).name.sym
                        /\ tokens[i].tt = "Ident"
                /\ call.self.fields.shape = "Tuple" =>
                        /\ names[i] = DecimalText[i]
                        /\ tokens[i].tt = "Literal"

C6_Witness ==
    /\ call.op = "field_types"
    /\ call.self.fields.shape = "Tuple"
    /\ Len(call.ret) = 11
    /\ call.ret[1] # call.ret[11]

\* C7: field_names() returns the empty sequence for Unit fields, the strings
\* "0", "1", ..., "N-1" in increasing order for a Tuple struct with N fields,
\* and the field names in source order for Named fields.
C7_FieldNames ==
    call.op = "field_names" =>
        /\ call.self.fields.shape = "Unit" => call.ret = <<>>
        /\ call.self.fields.shape = "Tuple" =>
                call.ret = [i \in 1..Len(call.self.fields.fields) |-> DecimalText[i]]
        /\ call.self.fields.shape = "Named" =>
                call.ret = [i \in 1..Len(call.self.fields.fields) |->
                                FieldAt(call.self, i).name.sym]

C7_Witness ==
    /\ call.op = "field_names"
    /\ call.self.fields.shape = "Tuple"
    /\ Len(call.ret) = 11
    /\ call.ret[11] = "10"

(***************************************************************************)
(* Enum classification.  A call either returns a value or panics.          *)
(***************************************************************************)
Ok(value) == [panic |-> FALSE, value |-> Some(value)]

Panic == [panic |-> TRUE, value |-> None]

EnumVariant(name, contents) == [name |-> name, contents |-> contents]

Enum(variants) == [variants |-> variants]

is_empty_variant_NoFields(self) == Len(self.contents.fields) = 0

is_empty_variant(self) == self.contents.shape = "Unit"

\* The loop of is_c_enum over the variants, returning at the first variant
\* that is not empty.
RECURSIVE is_c_enum_loop(_)
is_c_enum_loop(variants) ==
    IF variants = <<>> THEN TRUE
    ELSE IF ~is_empty_variant(Head(variants)) THEN FALSE
    ELSE is_c_enum_loop(Tail(variants))

is_c_enum(self) == is_c_enum_loop(items(self.variants))

\* p[index] on a Punctuated: the pair at the 0-based index, or a panic.
index_or_panic(p, index) == IF index < Len(p) THEN Ok(p[index + 1]) ELSE Panic

get_single_type_AtLeastOne(self) ==
    CASE self.contents.shape = "Tuple" /\ Len(self.contents.fields) >= 1 ->
            Ok(Some(unwrap(index_or_panic(self.contents.fields, 0).value)[1]))
      [] self.contents.shape = "Tuple" -> Ok(None)
      [] self.contents.shape = "Unit" -> Ok(None)
      [] self.contents.shape = "Named" -> Ok(None)

get_single_type(self) ==
    CASE self.contents.shape = "Tuple" /\ Len(self.contents.fields) = 1 ->
            LET first == index_or_panic(self.contents.fields, 0)
            IN  IF first.panic THEN Panic ELSE Ok(Some(unwrap(first.value)[1]))
      [] self.contents.shape = "Tuple" -> Ok(None)
      [] self.contents.shape = "Unit" -> Ok(None)
      [] self.contents.shape = "Named" -> Ok(None)

MaxVariants == 2

MaxVariantFields == 2

VariantContents ==
    { Unit }
    \cup { Tuple(f) : f \in TupleFieldsUpTo(MaxVariantFields) }
    \cup { Named(f) : f \in { Punctuated_from(q) :
              q \in SeqsUpTo({ NamedField(Ident_new("a", "src"), TyExpr(<<Id("Foo")>>)) },
                             MaxVariantFields - 1) } }

InitEnum ==
    /\ recv \in { Enum(Punctuated_from(q)) :
                    q \in SeqsUpTo({ EnumVariant(Ident_new("V", "src"), c) :
                                        c \in VariantContents }, MaxVariants) }
    /\ orig = recv
    /\ call = NoCall
    /\ log = <<>>

IsCEnum ==
    /\ call' = Call("is_c_enum", recv, None, is_c_enum(recv))
    /\ UNCHANGED <<recv, orig, log>>

IsEmptyVariant ==
    /\ \E i \in 1..Len(recv.variants) :
        call' = Call("is_empty_variant", items(recv.variants)[i], None,
                     is_empty_variant(items(recv.variants)[i]))
    /\ UNCHANGED <<recv, orig, log>>

GetSingleType ==
    /\ \E i \in 1..Len(recv.variants) :
        call' = Call("get_single_type", items(recv.variants)[i], None,
                     get_single_type(items(recv.variants)[i]))
    /\ UNCHANGED <<recv, orig, log>>

NextEnum == IsCEnum \/ IsEmptyVariant \/ GetSingleType

SpecEnum == InitEnum /\ [][NextEnum]_vars

\* C8: is_c_enum() is true exactly when is_empty_variant() is true of every
\* variant, is_empty_variant() being true exactly of a variant whose contents
\* are Unit; with no variants is_c_enum() is true.
C8_CEnum ==
    /\ call.op = "is_c_enum" =>
        /\ call.ret = (\A i \in 1..Len(call.self.variants) :
                            is_empty_variant(call.self.variants[i][1]))
        /\ call.ret = (\A i \in 1..Len(call.self.variants) :
                            call.self.variants[i][1].contents.shape = "Unit")
        /\ Len(call.self.variants) = 0 => call.ret = TRUE
    /\ call.op = "is_empty_variant" =>
        call.ret = (call.self.contents.shape = "Unit")

C8_Witness ==
    /\ call.op = "is_c_enum"
    /\ call.ret = FALSE
    /\ Len(call.self.variants) = 2
    /\ call.self.variants[1][1].contents.shape = "Unit"
    /\ call.self.variants[2][1].contents = Tuple(<<>>)

\* C9: get_single_type() returns a value exactly when the variant's contents
\* are Tuple with one field, the value being that field; it returns nothing
\* for Tuple contents of 0 or of 2 or more fields and for Named and Unit
\* contents, and it never panics.
C9_SingleType ==
    call.op = "get_single_type" =>
        /\ ~call.ret.panic
        /\ IF call.self.contents.shape = "Tuple" /\ Len(call.self.contents.fields) = 1
           THEN call.ret.value = <<Some(call.self.contents.fields[1][1])>>
           ELSE call.ret.value = <<None>>

C9_Witness ==
    /\ call.op = "get_single_type"
    /\ call.self.contents.shape = "Tuple"
    /\ Len(call.self.contents.fields) = 2
    /\ call.ret.value = <<None>>

(***************************************************************************)
(* WhereClauseItem::parse.  The token iterator is the sequence of tokens   *)
(* not yet taken.  consume_stuff_until takes tokens up to, not including,  *)
(* the first token that satisfies the predicate outside angle brackets,    *)
(* or all of them if there is none; a Group is one token.                  *)
(***************************************************************************)
is_colon(token) == token.tt = "Punct" /\ token.text = ":"

\* predicate is the closure parse passes, is_colon.
RECURSIVE consume_loop(_, _, _)
consume_loop(remaining, output_tokens, bracket_count) ==
    IF remaining = <<>> THEN [output |-> output_tokens, rest |-> remaining]
    ELSE LET token == Head(remaining)
             count == CASE token.tt = "Punct" /\ token.text = "<" -> bracket_count + 1
                        [] token.tt = "Punct" /\ token.text = ">" -> bracket_count - 1
                        [] OTHER -> bracket_count
         IN  IF is_colon(token) /\ bracket_count = 0
             THEN [output |-> output_tokens, rest |-> remaining]
             ELSE consume_loop(Tail(remaining), Append(output_tokens, token), count)

consume_stuff_until(tokens) == consume_loop(tokens, <<>>, 0)

\* TokenTree::Punct(punct) => punct
punct_of(token) == Punct_new(token.text, token.spacing)

WhereClauseItem_parse_KeepColon(tokens) ==
    LET consumed == consume_stuff_until(tokens)
    IN  IF consumed.rest = <<>> THEN Panic
        ELSE Ok(WhereClauseItem(consumed.output,
                    GenericBound(punct_of(Head(consumed.rest)), consumed.rest)))

WhereClauseItem_parse(tokens) ==
    LET consumed == consume_stuff_until(tokens)
        left_side == consumed.output
    IN  IF consumed.rest = <<>> THEN Panic
        ELSE IF is_colon(Head(consumed.rest))
        THEN Ok(WhereClauseItem(left_side,
                    GenericBound(punct_of(Head(consumed.rest)), Tail(consumed.rest))))
        ELSE Panic

MaxTokens == 4

ParseTokens ==
    { Id("T"), Pt(":"), TokenTree_Punct(Punct_new(":", "Joint")), Pt("<"), Pt(">"),
      TokenTree_Group("Parenthesis") }

InitParse ==
    /\ recv \in SeqsUpTo(ParseTokens, MaxTokens)
    /\ orig = recv
    /\ call = NoCall
    /\ log = <<>>

Parse ==
    /\ call' = Call("parse", None, recv, WhereClauseItem_parse(recv))
    /\ UNCHANGED <<recv, orig, log>>

NextParse == Parse

SpecParse == InitParse /\ [][NextParse]_vars

\* The number of tokens s[1..i-1] that are the punctuation character ch.
CountBefore(s, i, ch) ==
    Cardinality({ k \in 1..(i - 1) : s[k].tt = "Punct" /\ s[k].text = ch })

\* The positions of the colons that are outside angle brackets.
TopLevelColons(s) ==
    { i \in 1..Len(s) :
        /\ s[i].tt = "Punct" /\ s[i].text = ":"
        /\ CountBefore(s, i, "<") - CountBefore(s, i, ">") = 0 }

FirstOf(S) == CHOOSE i \in S : \A j \in S : i <= j

\* C10: parse(tokens) splits the tokens at the first top-level colon: the
\* left-hand side is every token before it, the bound's colon is that colon
\* and the bound's tokens are every token after it, so that the three
\* concatenated are the input; without a top-level colon (the empty
\* sequence included) parse panics and returns no item.
C10_ParseSplit ==
    call.op = "parse" =>
        IF TopLevelColons(call.arg) = {}
        THEN call.ret.panic /\ call.ret.value = None
        ELSE LET c == FirstOf(TopLevelColons(call.arg))
                 item == call.ret.value[1]
             IN  /\ ~call.ret.panic
                 /\ item.left_side = SubSeq(call.arg, 1, c - 1)
                 /\ item.bound.tk_colon = [ch |-> ":", spacing |-> call.arg[c].spacing]
                 /\ item.bound.tokens = SubSeq(call.arg, c + 1, Len(call.arg))
                 /\ item.left_side
                        \o << [tt |-> "Punct", text |-> item.bound.tk_colon.ch,
                               spacing |-> item.bound.tk_colon.spacing, span |-> CallSite] >>
                        \o item.bound.tokens = call.arg

C10_Witness ==
    /\ call.op = "parse"
    /\ ~call.ret.panic
    /\ Len(call.arg) = 4
    /\ call.arg[1] = Pt("<") /\ call.arg[2] = Pt(":") /\ call.arg[3] = Pt(">")
    /\ call.arg[4] = TokenTree_Punct(Punct_new(":", "Joint"))

C10_WitnessPanic ==
    /\ call.op = "parse"
    /\ call.ret.panic
    /\ call.arg = <<Id("T"), Pt("<"), Pt(":")>>

====
